---------------------------- MODULE Spec2Model ----------------------------
(***************************************************************************)
(* Model of the user-account service in src/app.py (Flask + sqlite3 +      *)
(* bcrypt): register, simple_authenticate, get_user_profile and            *)
(* update_user_profile, run by concurrent request handlers that each own   *)
(* a sqlite3 connection to the same database file.                         *)
(*                                                                         *)
(* Text (usernames, passwords, stored column values) is a tuple of         *)
(* one-character strings.  A JSON value of a request body is a record      *)
(* [t |-> its JSON type, s |-> its literal text].                          *)
(***************************************************************************)
EXTENDS Integers, Sequences, FiniteSets, TLC

(* ------------------------------ bounds -------------------------------- *)

\* Number of requests served in one behaviour.
MaxRequests == 3

\* The concurrent request handlers (threads of the WSGI server).
Procs == {"h1", "h2"}
NoProc == "none"

(* --------------------------- JSON values ------------------------------ *)

\* SQL NULL / Python None as a stored column value.
NULL == <<"NULL">>
\* Text of an integer literal beyond the float range (over 308 digits).
BIG == <<"1", "e", "4", "0", "0">>

JStr(s) == [t |-> "str", s |-> s]
JInt(s) == [t |-> "int", s |-> s]
JFloat(s) == [t |-> "float", s |-> s]
JNull == [t |-> "null", s |-> <<>>]
JBigInt == [t |-> "bigint", s |-> BIG]
JInf == [t |-> "inf", s |-> <<"i", "n", "f">>]
JList == [t |-> "list", s |-> <<"[", "]">>]

Digits == {"0", "1", "2", "3", "4", "5", "6", "7", "8", "9"}

\* s is a non-empty run of decimal digits.
IsDigits(s) == Len(s) > 0 /\ \A i \in 1..Len(s) : s[i] \in Digits

\* s is digits "." digits with at least one digit on one side.
IsDecimal(s) ==
    \E k \in 1..Len(s) :
        /\ s[k] = "."
        /\ \A i \in (1..Len(s)) \ {k} : s[i] \in Digits
        /\ Len(s) > 1

\* The text before the first "." (truncation toward zero of a positive float).
RECURSIVE Trunc(_)
Trunc(s) == IF s = <<>> \/ Head(s) = "." THEN <<>> ELSE <<Head(s)>> \o Trunc(Tail(s))

Ok(v) == [err |-> "none", v |-> v]
Raise(e) == [err |-> e, v |-> NULL]

\* Python float(value) on a decoded JSON value.  Of the string forms float()
\* accepts, the plain decimal literals are modelled (no sign, exponent,
\* padding, "nan" or "inf").
PyFloat(j) ==
    CASE j.t = "int" -> Ok(j.s \o <<".", "0">>)
      [] j.t = "float" -> Ok(j.s)
      [] j.t = "inf" -> Ok(j.s)
      [] j.t = "bigint" -> Raise("OverflowError")
      [] j.t = "str" -> IF IsDigits(j.s) THEN Ok(j.s \o <<".", "0">>)
                        ELSE IF IsDecimal(j.s) THEN Ok(j.s)
                        ELSE Raise("ValueError")
      [] OTHER -> Raise("TypeError")

\* Python int(value) on a decoded JSON value (strings: plain digit runs).
PyInt(j) ==
    CASE j.t = "int" -> Ok(j.s)
      [] j.t = "bigint" -> Ok(j.s)
      [] j.t = "float" -> Ok(Trunc(j.s))
      [] j.t = "inf" -> Raise("OverflowError")
      [] j.t = "str" -> IF IsDigits(j.s) THEN Ok(j.s) ELSE Raise("ValueError")
      [] OTHER -> Raise("TypeError")

\* Python str(value): never raises.
PyStr(j) == Ok(j.s)

\* The conversion the handlers apply to a non-null value of an optional field.
Convert(field, j) ==
    CASE field \in {"height", "weight"} -> PyFloat(j)
      [] field = "age" -> PyInt(j)
      [] OTHER -> PyStr(j)

valid_fields == <<"height", "weight", "age", "gender">>
ValidFieldSet == {valid_fields[i] : i \in 1..Len(valid_fields)}

(* -------------------------- password hasher --------------------------- *)

Salts == {"s1", "s2"}

\* bcrypt.hashpw(password, salt): the output embeds the salt; the digest is
\* represented by the plaintext it was derived from.
hashpw(password, salt) == <<"$2b$", salt>> \o password

\* bcrypt.checkpw(password, hashed): re-hash with the salt embedded in hashed.
checkpw_FixedSalt(password, hashed) == hashed = hashpw(password, "s1")
checkpw(password, hashed) == hashed = hashpw(password, hashed[2])

(* ----------------------------- users table ---------------------------- *)

Columns == {"id", "username", "hashed_password", "height", "weight", "age", "gender"}

Lookup(table, username) == {r \in table : r.username = username}

\* SELECT ... WHERE username = ? : a NULL parameter matches no row.
Select(table, j) == IF j.t = "null" THEN {} ELSE Lookup(table, j.s)

\* username TEXT UNIQUE NOT NULL
UniqueViolation_NoConstraint(table, username) == FALSE
UniqueViolation(table, username) == Lookup(table, username) # {}
NotNullViolation(row) == row.username = NULL \/ row.hashed_password = NULL

\* id INTEGER PRIMARY KEY AUTOINCREMENT (no row is ever deleted).
NextRowId(table) == Cardinality(table) + 1

\* sqlite3 refuses to bind a Python int outside 64 bits (OverflowError).
Bindable(values) == \A k \in DOMAIN values : values[k] # BIG

\* Columns returned by the handlers' SELECT statements / profile dicts.
ProfileColumns_WithHash == {"username", "height", "weight", "age", "gender", "hashed_password"}
ProfileColumns == {"username", "height", "weight", "age", "gender"}
Project(row, cols) == [c \in cols |-> row[c]]

\* UPDATE users SET k = ? (k in fields_to_update) WHERE username = ?
UpdateRow_Overwrite(row, fields) ==
    [c \in Columns |->
        IF c \in DOMAIN fields THEN fields[c]
        ELSE IF c \in ValidFieldSet THEN NULL ELSE row[c]]
UpdateRow(row, fields) ==
    [c \in Columns |-> IF c \in DOMAIN fields THEN fields[c] ELSE row[c]]
ApplyUpdate(table, username, fields) ==
    {IF r.username = username THEN UpdateRow(r, fields) ELSE r : r \in table}


(* ------------------------------ responses ----------------------------- *)

\* jsonify({...}), code : what the caller sees.
Reply(code, status, message) == [code |-> code, status |-> status, message |-> message]

\* The except clause itself raised (db.rollback() with db unbound): the view
\* function ends with an exception and the framework answers for it.
Unhandled == Reply(500, "unhandled", "UnboundLocalError")

\* A handler segment either answers (with its log line) or goes on with data.
Done(res, log) == [done |-> TRUE, res |-> res, log |-> log]
Continue(data) == [done |-> FALSE, data |-> data]

Faults == {"none", "decode", "connect", "select", "hash", "execute", "commit"}

(* ------------------------------ register ------------------------------ *)

MissingCredentials(body) == ~("username" \in DOMAIN body /\ "password" \in DOMAIN body)

\* reg_data.get(field), then "if value is not None: validated_data[field] = conv(value)".
RegField(body, field) ==
    IF field \in DOMAIN body /\ body[field].t # "null"
    THEN Convert(field, body[field])
    ELSE Ok(NULL)

\* The first exception raised by a sequence of conversions, "none" if none is.
RECURSIVE FirstErr(_)
FirstErr(results) ==
    IF results = <<>> THEN "none"
    ELSE IF Head(results).err # "none" THEN Head(results).err
    ELSE FirstErr(Tail(results))

RegisterValidate(body) ==
    FirstErr([i \in 1..Len(valid_fields) |-> RegField(body, valid_fields[i])])

RegisterRow(body, salt) ==
    [username |-> IF body.username.t = "null" THEN NULL ELSE body.username.s,
     hashed_password |-> hashpw(body.password.s, salt),
     height |-> RegField(body, "height").v,
     weight |-> RegField(body, "weight").v,
     age |-> RegField(body, "age").v,
     gender |-> RegField(body, "gender").v]

RegisterInvalidType == Reply(400, "failed", "Invalid data type provided")
RegisterDuplicate == Reply(409, "failed", "Username already exists")
RegisterDbError == Reply(500, "error", "Registration failed due to database error")
RegisterServerError == Reply(500, "error", "Registration failed due to server error")
RegisterCreated == Reply(201, "success", "Registration successful")

\* register() up to, not including, the INSERT.
register_check_ValidateFirst(table, body, fault, salt) ==
    IF fault = "decode" THEN Done(Unhandled, "BadRequest")
    ELSE IF MissingCredentials(body)
    THEN Done(Reply(400, "failed", "Missing username or password"), "missing")
    ELSE IF RegisterValidate(body) = "ValueError" THEN Done(RegisterInvalidType, "ValueError")
    ELSE IF fault = "connect" THEN Done(Unhandled, "sqlite3.Error")
    ELSE IF fault = "select" THEN Done(RegisterDbError, "sqlite3.Error")
    ELSE IF Select(table, body.username) # {} THEN Done(RegisterDuplicate, "already taken")
    ELSE IF body.password.t # "str" THEN Done(RegisterServerError, "AttributeError")
    ELSE IF fault = "hash" THEN Done(RegisterServerError, "Exception")
    ELSE IF RegisterValidate(body) # "none" THEN Done(RegisterServerError, RegisterValidate(body))
    ELSE Continue(RegisterRow(body, salt))
register_check(table, body, fault, salt) ==
    IF fault = "decode" THEN Done(Unhandled, "BadRequest")
    ELSE IF MissingCredentials(body)
    THEN Done(Reply(400, "failed", "Missing username or password"), "missing")
    ELSE IF fault = "connect" THEN Done(Unhandled, "sqlite3.Error")
    ELSE IF fault = "select" THEN Done(RegisterDbError, "sqlite3.Error")
    ELSE IF Select(table, body.username) # {} THEN Done(RegisterDuplicate, "already taken")
    ELSE IF body.password.t # "str" THEN Done(RegisterServerError, "AttributeError")
    ELSE IF fault = "hash" THEN Done(RegisterServerError, "Exception")
    ELSE IF RegisterValidate(body) = "ValueError" THEN Done(RegisterInvalidType, "ValueError")
    ELSE IF RegisterValidate(body) # "none" THEN Done(RegisterServerError, RegisterValidate(body))
    ELSE Continue(RegisterRow(body, salt))

\* db.execute('INSERT INTO users ...') on the handler's own connection: the
\* answer of the except clauses, or the table image the transaction holds.
register_insert(table, row, fault) ==
    IF fault = "execute" THEN Done(RegisterDbError, "sqlite3.Error")
    ELSE IF ~Bindable(row) THEN Done(RegisterServerError, "OverflowError")
    ELSE IF NotNullViolation(row) \/ UniqueViolation(table, row.username)
    THEN Done(RegisterDuplicate, "IntegrityError")
    ELSE Continue(table \cup {[c \in Columns |-> IF c = "id" THEN NextRowId(table) ELSE row[c]]})

(* -------------------------- simple_authenticate ----------------------- *)

AuthInvalid == Reply(401, "failed", "Invalid username or password")

simple_authenticate(table, body) ==
    IF MissingCredentials(body)
    THEN Done(Reply(400, "failed", "Missing username or password"), "missing")
    ELSE LET found == Select(table, body.username) IN
         IF found = {} THEN Done(AuthInvalid, "not found")
         ELSE LET user == CHOOSE r \in found : TRUE IN
              IF body.password.t # "str"
              THEN Done(Reply(500, "error", "Authentication failed due to server error"),
                        "AttributeError")
              ELSE IF checkpw(body.password.s, user.hashed_password)
              THEN Done([code |-> 200, status |-> "success",
                         message |-> "Authentication successful",
                         user_id |-> body.username.s,
                         user_profile |-> Project(user, ProfileColumns)], "ok")
              ELSE Done(AuthInvalid, "wrong password")

(* --------------------------- get_user_profile ------------------------- *)

get_user_profile(table, username) ==
    LET found == Lookup(table, username) IN
    IF found = {} THEN Done(Reply(404, "failed", "User not found"), "not found")
    ELSE Done([code |-> 200, status |-> "success", message |-> "",
               user_profile |-> Project(CHOOSE r \in found : TRUE, ProfileColumns)], "ok")

(* -------------------------- update_user_profile ----------------------- *)

\* One pass of "for field in valid_fields": the value stored in
\* fields_to_update for a key that is present in the body.
UpdField(body, field) ==
    IF body[field].t = "null" THEN Ok(NULL) ELSE Convert(field, body[field])

PresentFields(body) == {f \in ValidFieldSet : f \in DOMAIN body}

UpdateValidate(body) ==
    LET present == SelectSeq(valid_fields, LAMBDA f : f \in DOMAIN body) IN
    FirstErr([i \in 1..Len(present) |-> UpdField(body, present[i])])

fields_to_update(body) == [f \in PresentFields(body) |-> UpdField(body, f).v]

UpdateDbError == Reply(500, "error", "Profile update failed due to database error")
UpdateServerError == Reply(500, "error", "Profile update failed due to server error")
UpdateInvalidType == Reply(400, "failed", "Invalid data type for field")
UpdateNoChange == Reply(200, "success", "No fields provided or updated")
UpdateOk == Reply(200, "success", "Profile updated successfully")

\* update_user_profile() up to, not including, the UPDATE.
update_check(table, username, body, fault) ==
    IF fault = "decode" THEN Done(Unhandled, "BadRequest")
    ELSE IF DOMAIN body = {} THEN Done(Reply(400, "failed", "Missing profile data"), "missing")
    ELSE IF fault = "connect" THEN Done(Unhandled, "sqlite3.Error")
    ELSE IF fault = "select" THEN Done(UpdateDbError, "sqlite3.Error")
    ELSE IF Lookup(table, username) = {} THEN Done(Reply(404, "failed", "User not found"), "not found")
    ELSE IF UpdateValidate(body) = "ValueError" THEN Done(UpdateInvalidType, "ValueError")
    ELSE IF UpdateValidate(body) # "none" THEN Done(UpdateServerError, UpdateValidate(body))
    ELSE IF PresentFields(body) = {} THEN Done(UpdateNoChange, "no fields")
    ELSE Continue(fields_to_update(body))

\* db.execute(sql, values): the answer of the except clauses, or the table
\* image the transaction holds.
update_execute(table, username, fields, fault) ==
    IF fault = "execute" THEN Done(UpdateDbError, "sqlite3.Error")
    ELSE IF ~Bindable(fields) THEN Done(UpdateServerError, "OverflowError")
    ELSE Continue(ApplyUpdate(table, username, fields))

(* ------------------------------- inputs ------------------------------- *)

ALICE == <<"a">>
BOB == <<"b">>
PW1 == <<"p", "1">>
PW2 == <<"p", "2">>

\* Bodies of POST /register.
RegisterBodies ==
    { [username |-> JStr(ALICE), password |-> JStr(PW1), height |-> JFloat(<<"1", ".", "6">>)],
      [username |-> JStr(ALICE), password |-> JStr(PW2)],
      [username |-> JStr(ALICE), password |-> JStr(PW1), age |-> JStr(<<"x">>)],
      [username |-> JStr(<<>>), password |-> JStr(PW1)],
      [username |-> JNull, password |-> JStr(PW1)],
      [username |-> JStr(BOB), password |-> JNull],
      [password |-> JStr(PW1)] }

\* Bodies of POST /simple_authenticate.
AuthBodies ==
    { [username |-> JStr(ALICE), password |-> JStr(PW1)],
      [username |-> JStr(ALICE), password |-> JStr(PW2)],
      [username |-> JStr(ALICE), password |-> JNull],
      [username |-> JStr(BOB), password |-> JStr(PW1)],
      [username |-> JStr(ALICE)] }

\* The <username> of GET /user_profile/<username>.
PathNames == {ALICE}

\* Bodies of PUT /user_profile/<username>.
UpdateBodies ==
    { [k \in {} |-> JNull],
      [nickname |-> JStr(<<"x">>)],
      [age |-> JInt(<<"3", "1">>)],
      [height |-> JStr(<<"1", ".", "7">>)],
      [height |-> JNull, gender |-> JStr(<<"f">>)],
      [weight |-> JInt(<<"6", "0">>), age |-> JStr(<<"x">>)],
      [height |-> JBigInt],
      [age |-> JBigInt] }

\* The PUT requests: <<username, body>>.
UpdateRequests ==
    {<<ALICE, b>> : b \in UpdateBodies} \cup {<<BOB, [age |-> JInt(<<"3", "1">>)]>>}

(* -------------------------------- state ------------------------------- *)

VARIABLES
    users,       \* the committed rows of table users
    lock,        \* the handler whose connection holds the write transaction
    txn,         \* per handler: the table image its open transaction will commit
    pc,          \* per handler: where it is in its view function
    req,         \* per handler: the request it serves (or served last)
    loc,         \* per handler: validated_data / fields_to_update
    resp,        \* per handler: the response returned and the line logged
    nreq,        \* requests started so far
    joined,      \* per handler: the handlers whose request was in flight when its own began
    acting,      \* the handler that took the last step
    created      \* the registrations answered 201, in order: <<username, password>>

vars == <<users, lock, txn, pc, req, loc, resp, nreq, joined, acting, created>>

NoReq == [kind |-> "none"]
NoResp == [log |-> "none"]
NoLoc == <<>>

Init ==
    /\ users = {}
    /\ lock = NoProc
    /\ txn = [p \in Procs |-> {}]
    /\ pc = [p \in Procs |-> "idle"]
    /\ req = [p \in Procs |-> NoReq]
    /\ loc = [p \in Procs |-> NoLoc]
    /\ resp = [p \in Procs |-> NoResp]
    /\ nreq = 0
    /\ joined = [p \in Procs |-> {}]
    /\ acting = NoProc
    /\ created = <<>>

InFlight == {q \in Procs : pc[q] # "idle"}

\* The request is received.  Recorded with it: the requests then in flight.
Begin(p, r) ==
    /\ pc[p] = "idle"
    /\ nreq < MaxRequests
    /\ nreq' = nreq + 1
    /\ acting' = p
    /\ req' = [req EXCEPT ![p] = r]
    /\ joined' = [q \in Procs |-> IF q = p THEN InFlight ELSE joined[q] \ {p}]

\* The view function returns (or ends with an exception).
Return(p, o) ==
    /\ pc' = [pc EXCEPT ![p] = "idle"]
    /\ resp' = [resp EXCEPT ![p] = [res |-> o.res, log |-> o.log]]
    /\ loc' = [loc EXCEPT ![p] = NoLoc]

\* db.rollback() of a handler that holds the write transaction.
Rollback(p) ==
    /\ lock' = NoProc
    /\ txn' = [txn EXCEPT ![p] = {}]
    /\ UNCHANGED users

(* ------------------------------- actions ------------------------------ *)

\* POST /register, from request.get_json() to just before the INSERT.
Register(p, body, fault) ==
    /\ Begin(p, [kind |-> "register", username |-> NULL, body |-> body, fault |-> fault, before |-> {}])
    /\ \E salt \in Salts :
        LET o == register_check(users, body, fault, salt) IN
        IF o.done
        THEN Return(p, o)
        ELSE /\ pc' = [pc EXCEPT ![p] = "reg_insert"]
             /\ loc' = [loc EXCEPT ![p] = o.data]
             /\ resp' = [resp EXCEPT ![p] = NoResp]
    /\ UNCHANGED <<users, lock, txn, created>>

\* db.execute('INSERT ...'): waits while another connection holds the write
\* transaction; an exception is answered after db.rollback().
RegisterInsert(p) ==
    /\ pc[p] = "reg_insert"
    /\ acting' = p
    /\ lock = NoProc
    /\ LET o == register_insert(users, loc[p], req[p].fault) IN
        IF o.done
        THEN /\ Return(p, o)
             /\ UNCHANGED <<lock, txn>>
        ELSE /\ pc' = [pc EXCEPT ![p] = "reg_commit"]
             /\ lock' = p
             /\ txn' = [txn EXCEPT ![p] = o.data]
             /\ UNCHANGED <<loc, resp>>
    /\ UNCHANGED <<users, req, nreq, joined, created>>

\* db.commit() and the 201 answer; a failing commit is rolled back.
RegisterCommit(p) ==
    /\ pc[p] = "reg_commit"
    /\ acting' = p
    /\ IF req[p].fault = "commit"
       THEN /\ Rollback(p)
            /\ Return(p, Done(RegisterDbError, "sqlite3.Error"))
            /\ UNCHANGED created
       ELSE /\ users' = txn[p]
            /\ lock' = NoProc
            /\ txn' = [txn EXCEPT ![p] = {}]
            /\ Return(p, Done(RegisterCreated, "registered"))
            /\ created' = Append(created, <<req[p].body.username.s, req[p].body.password.s>>)
    /\ UNCHANGED <<req, nreq, joined>>

\* POST /simple_authenticate: one SELECT, no write.
Authenticate(p, body) ==
    /\ Begin(p, [kind |-> "authenticate", username |-> NULL, body |-> body, fault |-> "none", before |-> {}])
    /\ Return(p, simple_authenticate(users, body))
    /\ UNCHANGED <<users, lock, txn, created>>

\* GET /user_profile/<username>: one SELECT, no write.
GetProfile(p, username) ==
    /\ Begin(p, [kind |-> "get", username |-> username, body |-> <<>>, fault |-> "none", before |-> {}])
    /\ Return(p, get_user_profile(users, username))
    /\ UNCHANGED <<users, lock, txn, created>>

\* PUT /user_profile/<username>, from request.get_json() to just before the UPDATE.
UpdateProfile(p, username, body, fault) ==
    /\ Begin(p, [kind |-> "update", username |-> username, body |-> body, fault |-> fault,
                 before |-> Lookup(users, username)])
    /\ LET o == update_check(users, username, body, fault) IN
        IF o.done
        THEN Return(p, o)
        ELSE /\ pc' = [pc EXCEPT ![p] = "upd_execute"]
             /\ loc' = [loc EXCEPT ![p] = o.data]
             /\ resp' = [resp EXCEPT ![p] = NoResp]
    /\ UNCHANGED <<users, lock, txn, created>>

\* db.execute(sql, values): waits while another connection holds the write
\* transaction; an exception is answered after db.rollback().
UpdateExecute_WriteBack(p) ==
    /\ pc[p] = "upd_execute"
    /\ acting' = p
    /\ lock = NoProc
    /\ pc' = [pc EXCEPT ![p] = "upd_commit"]
    /\ lock' = p
    /\ txn' = [txn EXCEPT ![p] =
                 (users \ Lookup(users, req[p].username))
                 \cup {UpdateRow(r, loc[p]) : r \in req[p].before}]
    /\ UNCHANGED <<users, req, nreq, joined, created, loc, resp>>
UpdateExecute(p) ==
    /\ pc[p] = "upd_execute"
    /\ acting' = p
    /\ lock = NoProc
    /\ LET o == update_execute(users, req[p].username, loc[p], req[p].fault) IN
        IF o.done
        THEN /\ Return(p, o)
             /\ UNCHANGED <<lock, txn>>
        ELSE /\ pc' = [pc EXCEPT ![p] = "upd_commit"]
             /\ lock' = p
             /\ txn' = [txn EXCEPT ![p] = o.data]
             /\ UNCHANGED <<loc, resp>>
    /\ UNCHANGED <<users, req, nreq, joined, created>>

\* db.commit() and the 200 answer; a failing commit is rolled back.
UpdateCommit(p) ==
    /\ pc[p] = "upd_commit"
    /\ acting' = p
    /\ IF req[p].fault = "commit"
       THEN /\ Rollback(p)
            /\ Return(p, Done(UpdateDbError, "sqlite3.Error"))
       ELSE /\ users' = txn[p]
            /\ lock' = NoProc
            /\ txn' = [txn EXCEPT ![p] = {}]
            /\ Return(p, Done(UpdateOk, "updated"))
    /\ UNCHANGED <<req, nreq, joined, created>>

Next ==
    \E p \in Procs :
        \/ \E body \in RegisterBodies : Register(p, body, "none")
        \/ RegisterInsert(p)
        \/ RegisterCommit(p)
        \/ \E body \in AuthBodies : Authenticate(p, body)
        \/ \E username \in PathNames : GetProfile(p, username)
        \/ \E r \in UpdateRequests : UpdateProfile(p, r[1], r[2], "none")
        \/ UpdateExecute(p)
        \/ UpdateCommit(p)

Spec == Init /\ [][Next]_vars

\* The handlers that write, with a failure injected at one of their steps.
FaultBodies == {b \in RegisterBodies : "height" \in DOMAIN b \/ "username" \notin DOMAIN b}
FaultUpdates == {b \in UpdateBodies : DOMAIN b \subseteq {"age", "nickname"}}

NextFault ==
    \E p \in Procs :
        \/ \E body \in FaultBodies, fault \in Faults : Register(p, body, fault)
        \/ RegisterInsert(p)
        \/ RegisterCommit(p)
        \/ \E body \in FaultUpdates, fault \in Faults : UpdateProfile(p, ALICE, body, fault)
        \/ UpdateExecute(p)
        \/ UpdateCommit(p)

FaultSpec == Init /\ [][NextFault]_vars

(* ------------------------------- claims ------------------------------- *)

\* The handler has answered the request held in req[p].
Finished(p) == pc[p] = "idle" /\ req[p].kind # "none"
FinishedAs(p, kind) == Finished(p) /\ req[p].kind = kind

HasStr(body, key) == key \in DOMAIN body /\ body[key].t = "str"

\* A registration request that gets as far as the INSERT when its username is free.
WellFormedRegister(body) ==
    /\ HasStr(body, "username") /\ HasStr(body, "password")
    /\ RegisterValidate(body) = "none"
    /\ Bindable(RegisterRow(body, "s1"))

CreatedCount(u) == Cardinality({i \in 1..Len(created) : created[i][1] = u})

\* C1: whatever the interleaving of Register requests, no two rows share a
\* username, at most one Register of a username is answered 201, every other
\* well-formed Register of it is answered 409 "Username already exists", and of
\* two concurrent Registers that both pass the existence check exactly one wins.
C1_UniqueUsername ==
    /\ \A r1, r2 \in users : r1.username = r2.username => r1 = r2
    /\ \A r \in users : CreatedCount(r.username) = 1
    /\ \A i \in 1..Len(created) : CreatedCount(created[i][1]) = 1
    /\ \A p \in Procs :
        (FinishedAs(p, "register") /\ WellFormedRegister(req[p].body)) =>
            \/ resp[p].res = RegisterCreated
            \/ resp[p].res = RegisterDuplicate /\ CreatedCount(req[p].body.username.s) = 1
    /\ \A p, q \in Procs :
        (/\ p # q
         /\ FinishedAs(p, "register") /\ FinishedAs(q, "register")
         /\ WellFormedRegister(req[p].body) /\ WellFormedRegister(req[q].body)
         /\ req[p].body.username = req[q].body.username
         /\ p \in joined[q]
         /\ resp[p].log \in {"registered", "IntegrityError"}
         /\ resp[q].log \in {"registered", "IntegrityError"})
        => (resp[p].res = RegisterCreated) # (resp[q].res = RegisterCreated)

\* Two Registers of one username raced past the existence check: one was
\* answered 201, the other met the UNIQUE constraint.
C1_Witness ==
    \E p, q \in Procs :
        /\ FinishedAs(p, "register") /\ FinishedAs(q, "register")
        /\ p \in joined[q]
        /\ resp[p].log = "registered" /\ resp[q].log = "IntegrityError"
        /\ resp[q].res = RegisterDuplicate
        /\ req[q].body.username = req[p].body.username

\* Neither the plaintext password nor a stored hash is in the response.
NoPasswordMaterial(res, secrets) ==
    /\ DOMAIN res \cap {"password", "hashed_password"} = {}
    /\ "user_id" \in DOMAIN res => res.user_id \notin secrets
    /\ "user_profile" \in DOMAIN res =>
        /\ DOMAIN res.user_profile \cap {"password", "hashed_password"} = {}
        /\ \A c \in DOMAIN res.user_profile : res.user_profile[c] \notin secrets

Hashes(table) == {r.hashed_password : r \in table}

\* The step is handler p receiving a request of this kind.
Receives(p, kind) == acting' = p /\ nreq' = nreq + 1 /\ req'[p].kind = kind

\* C2: once Register(username, password) was answered 201 for a non-empty
\* username and password, every later Authenticate with the same pair is
\* answered 200, whatever was served in between, and neither answer carries
\* the plaintext password or the stored hash.
C2_RegisterThenAuthenticate ==
    [][\A p \in Procs :
        /\ (/\ Receives(p, "authenticate")
            /\ HasStr(req'[p].body, "username") /\ HasStr(req'[p].body, "password")
            /\ req'[p].body.username.s # <<>> /\ req'[p].body.password.s # <<>>
            /\ \E i \in 1..Len(created) :
                   created[i] = <<req'[p].body.username.s, req'[p].body.password.s>>)
           => /\ pc'[p] = "idle"
              /\ resp'[p].res.code = 200
              /\ NoPasswordMaterial(resp'[p].res, {req'[p].body.password.s} \cup Hashes(users))
        /\ (pc[p] = "reg_commit" /\ acting' = p /\ resp'[p].res = RegisterCreated)
           => NoPasswordMaterial(resp'[p].res, {req[p].body.password.s} \cup Hashes(users'))
      ]_vars

\* A registered user was updated, and then authenticated with the registered
\* password: the 200 answer shows the updated profile.
C2_Witness ==
    \E p \in Procs :
        /\ FinishedAs(p, "authenticate")
        /\ resp[p].res.code = 200
        /\ resp[p].res.user_profile.age = <<"3", "1">>
        /\ \E i \in 1..Len(created) :
               created[i] = <<req[p].body.username.s, req[p].body.password.s>>

\* C3: an Authenticate that fails for a stored username is answered exactly as
\* it would be were the username not stored: 401 "Invalid username or password".
C3_UniformAuthFailure ==
    \A p \in Procs :
        (/\ FinishedAs(p, "authenticate")
         /\ acting = p
         /\ ~MissingCredentials(req[p].body)
         /\ resp[p].res.code # 200)
        => /\ resp[p].res = AuthInvalid
           /\ resp[p].res =
                simple_authenticate(users \ Select(users, req[p].body.username), req[p].body).res

\* C4: for a stored user, an UpdateProfile whose body is {} or holds no
\* whitelisted key is answered 200 and changes no row.
C4_EmptyUpdateIsNoOp ==
    \A p \in Procs :
        (/\ FinishedAs(p, "update")
         /\ req[p].before # {}
         /\ PresentFields(req[p].body) = {})
        => resp[p].res.code = 200 /\ resp[p].log = "no fields"

\* A scalar JSON value that the field's conversion rejects.
FailsToCoerce(body, field) ==
    /\ field \in DOMAIN body
    /\ body[field].t \notin {"null", "list"}
    /\ Convert(field, body[field]).err # "none"

\* C5: for a stored user, an UpdateProfile in which a whitelisted key carries a
\* scalar that does not coerce to its type is answered 400 (invalid field type)
\* and the row stays as it was.
C5_InvalidTypeRejected ==
    \A p \in Procs :
        (/\ FinishedAs(p, "update")
         /\ req[p].before # {}
         /\ \E f \in {"height", "weight", "age"} : FailsToCoerce(req[p].body, f))
        => /\ resp[p].res = UpdateInvalidType
           /\ acting = p => req[p].before \subseteq users

\* username or password is absent, null or the empty string.
MissingOrEmpty(body) ==
    \E k \in {"username", "password"} :
        k \notin DOMAIN body \/ body[k].t = "null" \/ body[k] = JStr(<<>>)

\* C6: a Register whose username or password is absent, null or empty is
\* answered 400 (missing field), and no stored user has an empty username.
C6_MissingFieldRejected ==
    /\ \A r \in users : r.username # <<>>
    /\ \A p \in Procs :
        (FinishedAs(p, "register") /\ MissingOrEmpty(req[p].body))
        => resp[p].res = Reply(400, "failed", "Missing username or password")

\* The value UpdateProfile is to store for a key present in its body.
Stored(body, field) == IF body[field].t = "null" THEN NULL ELSE Convert(field, body[field]).v

\* C7: a successful UpdateProfile(u, m) sets exactly the whitelisted fields
\* whose keys are in m, each to its validated value and to null where m gives
\* null; the other whitelisted fields, the id, username and hashed_password of
\* u, and the rows of all other users, stay as they were.
C7_PartialUpdateFrame ==
    [][\A p \in Procs :
        (pc[p] = "upd_commit" /\ acting' = p /\ resp'[p].res = UpdateOk) =>
            LET u == req[p].username
                m == req[p].body
            IN /\ \A r \in users : r.username # u => r \in users'
               /\ \A r \in users' : r.username # u => r \in users
               /\ \A r \in Lookup(users, u) :
                    \E r2 \in users' :
                        /\ \A c \in {"id", "username", "hashed_password"} : r2[c] = r[c]
                        /\ \A f \in ValidFieldSet :
                            r2[f] = IF f \in DOMAIN m THEN Stored(m, f) ELSE r[f]
               /\ Cardinality(Lookup(users', u)) = Cardinality(Lookup(users, u))
      ]_vars

\* An update that clears height and sets gender was answered 200 on a row
\* whose height was set at registration: height is null, gender set, the
\* password hash is the one registered.
C7_Witness ==
    \E p \in Procs :
        /\ FinishedAs(p, "update")
        /\ resp[p].res = UpdateOk
        /\ acting = p
        /\ DOMAIN req[p].body = {"height", "gender"}
        /\ \E b \in req[p].before : b.height # NULL
        /\ \E r \in Lookup(users, req[p].username) :
            r.height = NULL /\ r.gender = <<"f">> /\ r.weight = NULL

\* A Register with username and password and an optional field (height,
\* weight, age) that its conversion rejects.
BadOptionalField(body) ==
    /\ HasStr(body, "username") /\ HasStr(body, "password")
    /\ \E f \in {"height", "weight", "age"} : FailsToCoerce(body, f)

Unexpected == {"BadRequest", "sqlite3.Error", "Exception", "AttributeError",
               "OverflowError", "TypeError"}

\* C9: an unexpected failure at any step of Register or UpdateProfile ends in
\* the handler's own generic 500 answer (after a rollback), the error path
\* itself never failing.
C9_FailureAnswered500 ==
    \A p \in Procs :
        (/\ Finished(p)
         /\ req[p].kind \in {"register", "update"}
         /\ resp[p].log \in Unexpected)
        => resp[p].res.code = 500 /\ resp[p].res.status = "error" /\ lock # p

\* C10: two concurrent UpdateProfile requests on one user with disjoint sets
\* of whitelisted keys, both answered 200: the row holds the values of both,
\* and what it held before for every other column.
C10_NoLostUpdate ==
    \A p, q \in Procs :
        (/\ p # q
         /\ FinishedAs(p, "update") /\ FinishedAs(q, "update")
         /\ p \in joined[q]
         /\ req[p].username = req[q].username
         /\ resp[p].res = UpdateOk /\ resp[q].res = UpdateOk
         /\ PresentFields(req[p].body) \cap PresentFields(req[q].body) = {})
        => /\ Lookup(users, req[p].username) # {}
           /\ \A r \in Lookup(users, req[p].username) :
                \E b \in req[q].before :
                    \A c \in Columns :
                        r[c] = IF c \in PresentFields(req[p].body) THEN Stored(req[p].body, c)
                               ELSE IF c \in PresentFields(req[q].body) THEN Stored(req[q].body, c)
                               ELSE b[c]

\* Two such updates ran concurrently: the second began before the first
\* executed its UPDATE, and both were answered 200.
C10_Witness ==
    \E p, q \in Procs :
        /\ p # q
        /\ FinishedAs(p, "update") /\ FinishedAs(q, "update")
        /\ p \in joined[q]
        /\ req[p].username = req[q].username
        /\ resp[p].res = UpdateOk /\ resp[q].res = UpdateOk
        /\ PresentFields(req[p].body) \cap PresentFields(req[q].body) = {}
        /\ req[p].before = req[q].before
        /\ \E b \in req[q].before : b.height # NULL

=============================================================================
